---- MODULE Spec2Model ----
(***************************************************************************)
(* Model of the event-log pipeline of ITB8201-hackathon:                   *)
(*   src/processmining.py            (batch script, entry "script")        *)
(*   src/streamlit_process_mining.py (analyze_contract, entry "streamlit") *)
(* One run: block number -> ABI fetch -> log fetch -> per-log decode and   *)
(* case mapping -> empty check -> discovery engine calls.                  *)
(***************************************************************************)
EXTENDS Integers, Sequences, FiniteSets, TLC

VARIABLES
    entry,          \* which entry point runs: "script" | "streamlit"
    num_blocks,     \* LAST_N_BLOCKS / the num_blocks argument
    pc,             \* position of the run
    current_block,  \* w3.eth.block_number
    start_block,    \* max(current_block - num_blocks, 0)
    reply,          \* the explorer's JSON reply to getabi
    abi_events,     \* event definitions kept from the ABI
    logs,           \* the list returned by fetch_logs
    data,           \* the list of records built by the loop
    decoded,        \* the loop's local `decoded` for the last log handled
    outcome,        \* how the run ended ("" while running)
    origin,         \* the place an exception was raised / the run stopped
    message,        \* text printed or shown to the operator
    engine,         \* calls made to the discovery engine (pm4py), in order
    rpc_failed      \* TRUE once an RPC call of the run has failed

vars == <<entry, num_blocks, pc, current_block, start_block, reply, abi_events,
          logs, data, decoded, outcome, origin, message, engine, rpc_failed>>

-----------------------------------------------------------------------------
(* Bounds of the model *)

\* longest list of logs get_logs returns
MaxLogs == 2
\* most ABI items in an explorer reply
MaxAbiItems == 2
\* stand-in for 2^160: a topic word below it has empty padding
AddrSpace == 16
\* words from here up stand for hash-sized integers (beyond any calendar date)
HugeFrom == 2000000000

-----------------------------------------------------------------------------
(* Values: decoded arguments and record fields *)

Addr(n) == [k |-> "address", a |-> n]
IntV(n) == [k |-> "int", n |-> n]
Str(s) == [k |-> "str", s |-> s]
Bytes(b) == [k |-> "bytes", b |-> b]
Bytes32(w) == [k |-> "bytes32", w |-> w]
Hex(w) == [k |-> "hex", w |-> w]

None == [tag |-> "none"]
Ok(v) == [tag |-> "ok", val |-> v]
Raise(e) == [tag |-> "raise", err |-> e]


\* index of the first element of s equal to x (list.index), 0 when absent
IndexOf(s, x) ==
    IF \E i \in 1..Len(s) : s[i] = x
    THEN CHOOSE i \in 1..Len(s) : s[i] = x /\ \A j \in 1..(i - 1) : s[j] # x
    ELSE 0

-----------------------------------------------------------------------------
(* ABI items *)

Input(name, type, indexed) == [name |-> name, type |-> type, indexed |-> indexed]
Event(name, inputs) == [type |-> "event", name |-> name, inputs |-> inputs]

StepExecuted ==
    Event("StepExecuted", << Input("user", "address", FALSE),
                             Input("step", "string", FALSE),
                             Input("timestamp", "uint256", FALSE) >>)
Moved ==
    Event("Moved", << Input("amount", "uint256", FALSE),
                      Input("user", "address", TRUE) >>)
Ping == Event("Ping", << >>)
Noted == Event("Noted", << Input("timestamp", "string", FALSE) >>)
Sealed ==
    Event("Sealed", << Input("timestamp", "address", FALSE),
                       Input("memo", "bytes", FALSE) >>)
Tagged ==
    Event("Tagged", << Input("step", "string", TRUE),
                       Input("timestamp", "bytes", FALSE) >>)
transfer == [type |-> "function", name |-> "transfer", inputs |-> << >>]

\* the contract's interface in declaration order
Interface == << StepExecuted, Moved, Ping, Noted, Sealed, Tagged, transfer >>
EventPool == SelectSeq(Interface, LAMBDA it : it.type = "event")

\* f"{name}({','.join(types)})"
Signature(abi_event) ==
    << abi_event.name,
       [i \in 1..Len(abi_event.inputs) |-> abi_event.inputs[i].type] >>

\* keccak of a signature: injective on the signatures of the interface
get_event_signature_hash(signature) ==
    HugeFrom + 10 +
    (CHOOSE i \in 1..Len(EventPool) :
        /\ Signature(EventPool[i]) = signature
        /\ \A j \in 1..(i - 1) : Signature(EventPool[j]) # signature)

Blobs == << "Checkout", "Pay", "noon", "xFF" >>
Utf8(b) == b # "xFF"
\* keccak of a dynamic value (what the chain stores for an indexed string/bytes)
KeccakBlob(b) == HugeFrom + 100 + IndexOf(Blobs, b)


-----------------------------------------------------------------------------
(* Raw logs as the chain emits them *)

Word(w) == [k |-> "word", w |-> w]
Dyn(b) == [k |-> "dyn", b |-> b]

CONTRACT_ADDRESS == Addr(1)

IsDynamic(type) == type \in {"string", "bytes"}

\* topic of an indexed argument: the value itself, or the hash of a dynamic one
EncodeTopic(type, v) ==
    CASE type = "address" -> v.a
      [] type = "uint256" -> v.n
      [] type = "string" -> KeccakBlob(v.s)
      [] type = "bytes" -> KeccakBlob(v.b)

\* head/tail slot of a non-indexed argument in the data payload
EncodeSlot(type, v) ==
    CASE type = "address" -> Word(v.a)
      [] type = "uint256" -> Word(v.n)
      [] type = "string" -> Dyn(v.s)
      [] type = "bytes" -> Dyn(v.b)

RECURSIVE EncodeTopics(_, _)
EncodeTopics(inputs, vals) ==
    IF inputs = << >> THEN << >>
    ELSE (IF Head(inputs).indexed
          THEN << EncodeTopic(Head(inputs).type, Head(vals)) >> ELSE << >>)
         \o EncodeTopics(Tail(inputs), Tail(vals))

RECURSIVE EncodeData(_, _)
EncodeData(inputs, vals) ==
    IF inputs = << >> THEN << >>
    ELSE (IF Head(inputs).indexed
          THEN << >> ELSE << EncodeSlot(Head(inputs).type, Head(vals)) >>)
         \o EncodeData(Tail(inputs), Tail(vals))

\* the log a contract at CONTRACT_ADDRESS emits for event ev with arguments vals
\* (vals in declaration order) in block blk
EncodeLog(ev, vals, blk) ==
    [address |-> CONTRACT_ADDRESS,
     topics |-> << get_event_signature_hash(Signature(ev)) >>
                \o EncodeTopics(ev.inputs, vals),
     data |-> EncodeData(ev.inputs, vals),
     blockNumber |-> blk]

\* the argument values the contract emits with each of its events
Emitted(ev) ==
    CASE ev = StepExecuted -> << Addr(2), Str("Checkout"), IntV(1700000000) >>
      [] ev = Moved -> << IntV(7), Addr(3) >>
      [] ev = Ping -> << >>
      [] ev = Noted -> << Str("noon") >>
      [] ev = Sealed -> << Addr(2), Bytes("xFF") >>
      [] ev = Tagged -> << Str("Pay"), Bytes("xFF") >>

BlockOf(ev) == IF ev \in {StepExecuted, Moved} THEN 2 ELSE 3

EmittedLog(ev) == EncodeLog(ev, Emitted(ev), BlockOf(ev))

\* logs that are no well-formed emission of the interface
AnonymousLog ==
    [address |-> CONTRACT_ADDRESS, topics |-> << >>, data |-> << >>,
     blockNumber |-> 3]
UnknownLog ==
    [address |-> CONTRACT_ADDRESS, topics |-> << HugeFrom + 1 >>,
     data |-> << >>, blockNumber |-> 2]
ShortTopicsLog ==
    [address |-> CONTRACT_ADDRESS,
     topics |-> << get_event_signature_hash(Signature(Moved)) >>,
     data |-> << Word(7) >>, blockNumber |-> 3]
ShortDataLog ==
    [address |-> CONTRACT_ADDRESS,
     topics |-> << get_event_signature_hash(Signature(StepExecuted)) >>,
     data |-> << Word(2) >>, blockNumber |-> 3]
HugeTimestampLog ==
    EncodeLog(StepExecuted, << Addr(2), Str("Pay"), IntV(HugeFrom + 5) >>, 3)

ChainLogs ==
    { EmittedLog(EventPool[i]) : i \in 1..Len(EventPool) }
    \cup { AnonymousLog, UnknownLog, ShortTopicsLog, ShortDataLog,
           HugeTimestampLog }

-----------------------------------------------------------------------------
(* ABI decoding of the data payload (eth_abi.decode / the web3 codec) *)

\* the 32-byte head word of slot j: the value, or the offset of a dynamic tail
\* (each tail here is a length word and one word of content)
HeadWord(payload, j) ==
    IF payload[j].k = "word" THEN payload[j].w
    ELSE 32 * Len(payload)
         + 64 * Cardinality({i \in 1..(j - 1) : payload[i].k = "dyn"})

DecodeSlot(type, payload, j) ==
    IF j > Len(payload) THEN Raise("DecodingError")
    ELSE CASE type = "uint256" -> Ok(IntV(HeadWord(payload, j)))
           [] type = "address" ->
                IF HeadWord(payload, j) >= AddrSpace
                THEN Raise("DecodingError")
                ELSE Ok(Addr(HeadWord(payload, j)))
           [] type = "string" ->
                IF payload[j].k = "dyn" /\ Utf8(payload[j].b)
                THEN Ok(Str(payload[j].b))
                ELSE Raise("DecodingError")
           [] type = "bytes" ->
                IF payload[j].k = "dyn"
                THEN Ok(Bytes(payload[j].b))
                ELSE Raise("DecodingError")

\* decode(arg_types, data_bytes): the values, or the error of the first bad slot
decode(arg_types, payload) ==
    LET slots == [j \in 1..Len(arg_types) |-> DecodeSlot(arg_types[j], payload, j)]
    IN IF \E j \in 1..Len(arg_types) : slots[j].tag = "raise"
       THEN Raise("DecodingError")
       ELSE Ok([j \in 1..Len(arg_types) |-> slots[j].val])

IndexedInputs(abi_event) == SelectSeq(abi_event.inputs, LAMBDA i : i.indexed)
NonIndexedInputs(abi_event) == SelectSeq(abi_event.inputs, LAMBDA i : ~i.indexed)
TypesOf(inputs) == [j \in 1..Len(inputs) |-> inputs[j].type]
NamesOf(inputs) == [j \in 1..Len(inputs) |-> inputs[j].name]

-----------------------------------------------------------------------------
(* processmining.py: decode_log *)

\* one indexed input read from topics[topic_index]
DecodeIndexed(inp, topic) ==
    IF inp.type = "address" THEN Addr(topic % AddrSpace) ELSE IntV(topic)

\* names returned beside the arguments
ArgNames(abi_event) == NamesOf(abi_event.inputs)

\* the body of the `if` for the definition whose hash matched
DecodeMatched(log, abi_event) ==
    LET indexed_inputs == IndexedInputs(abi_event)
        non_indexed_inputs == NonIndexedInputs(abi_event)
    IN IF Len(indexed_inputs) > Len(log.topics) - 1
       THEN Raise("IndexError")
       ELSE LET decoded_indexed ==
                    [j \in 1..Len(indexed_inputs) |->
                        DecodeIndexed(indexed_inputs[j], log.topics[j + 1])]
                dec == IF Len(non_indexed_inputs) > 0
                       THEN decode(TypesOf(non_indexed_inputs), log.data)
                       ELSE Ok(<< >>)
            IN IF dec.tag = "raise" THEN dec
               ELSE Ok([event_name |-> abi_event.name,
                        args |-> decoded_indexed \o dec.val,
                        arg_names |-> ArgNames(abi_event)])

RECURSIVE decode_log(_, _)
decode_log(log, events) ==
    IF events = << >> THEN None
    ELSE IF Len(log.topics) = 0 THEN Raise("IndexError")
    ELSE IF log.topics[1] = get_event_signature_hash(Signature(Head(events)))
         THEN DecodeMatched(log, Head(events))
         ELSE decode_log(log, Tail(events))

-----------------------------------------------------------------------------
(* streamlit_process_mining.py: decode_log over web3's get_event_data *)

\* an indexed topic as web3 decodes it: dynamic types come back as bytes32
DecodeTopic(type, topic) ==
    CASE type = "address" ->
            IF topic >= AddrSpace THEN Raise("DecodingError")
            ELSE Ok(Addr(topic))
      [] type = "uint256" -> Ok(IntV(topic))
      [] IsDynamic(type) -> Ok(Bytes32(topic))

get_event_data(abi_event, log) ==
    LET indexed_inputs == IndexedInputs(abi_event)
        non_indexed_inputs == NonIndexedInputs(abi_event)
    IN IF Len(log.topics) = 0 THEN Raise("MismatchedABI")
       ELSE IF log.topics[1] # get_event_signature_hash(Signature(abi_event))
       THEN Raise("MismatchedABI")
       ELSE IF Len(log.topics) - 1 # Len(indexed_inputs)
       THEN Raise("LogTopicError")
       ELSE LET dec == decode(TypesOf(non_indexed_inputs), log.data)
                tops == [j \in 1..Len(indexed_inputs) |->
                            DecodeTopic(indexed_inputs[j].type, log.topics[j + 1])]
            IN IF dec.tag = "raise" THEN dec
               ELSE IF \E j \in 1..Len(tops) : tops[j].tag = "raise"
               THEN Raise("DecodingError")
               ELSE Ok([event_name |-> abi_event.name,
                        args |-> [j \in 1..Len(tops) |-> tops[j].val] \o dec.val,
                        arg_names |-> NamesOf(indexed_inputs)
                                      \o NamesOf(non_indexed_inputs)])

RECURSIVE decode_log_st(_, _)
\* try each definition; an exception means "not this one"
decode_log_st(log, events) ==
    IF events = << >> THEN None
    ELSE LET got == get_event_data(Head(events), log)
         IN IF got.tag = "ok" THEN got ELSE decode_log_st(log, Tail(events))

-----------------------------------------------------------------------------
(* The case mapper: one iteration of the loop over the logs *)

\* timestamp of a block of the chain (epoch seconds)
BlockTimestamp(block_number) == 1600000000 + 12 * block_number

\* what w3.eth.get_block answers: the block, or a transport failure
BlockResponses(block_number) ==
    { [ok |-> TRUE, timestamp |-> BlockTimestamp(block_number)], [ok |-> FALSE] }

get_block_timestamp_swallow(resp) ==
    IF resp.ok THEN Ok(resp.timestamp) ELSE Ok(0)
get_block_timestamp(resp) ==
    IF resp.ok THEN Ok(resp.timestamp) ELSE Raise("RetrievalError")

\* datetime.fromtimestamp: second resolution, out of range for hash-sized values
fromtimestamp(n) ==
    IF n >= HugeFrom THEN Raise("OverflowError") ELSE Ok([epoch |-> n])

Record(case_id, activity, ts) ==
    [case_id |-> case_id, activity |-> activity, timestamp |-> ts]

Done(rec, d) == [tag |-> "ok", rec |-> rec, decoded |-> d]
Fail(err, where, d) == [tag |-> "raise", err |-> err, origin |-> where, decoded |-> d]

\* `if isinstance(evt_ts, int): ts_value = datetime.fromtimestamp(evt_ts)`
TimestampOverrideUnchecked(evt_ts, ts_value) ==
    IF evt_ts.k = "int" THEN fromtimestamp(evt_ts.n) ELSE Raise("TypeError")
TimestampOverride(evt_ts, ts_value) ==
    IF evt_ts.k = "int" THEN fromtimestamp(evt_ts.n) ELSE Ok(ts_value)

\* processmining.py, the `if not decoded` branch
MapUndecoded(log, ts) ==
    IF ts.tag = "raise" THEN Fail(ts.err, "get_block_timestamp", None)
    ELSE IF Len(log.topics) = 0 THEN Fail("IndexError", "mapper", None)
    ELSE Done(Record(log.address, Hex(log.topics[1]), fromtimestamp(ts.val).val),
              None)

\* processmining.py, the `else` branch: defaults, then the name heuristics
MapDecoded(d, ts) ==
    IF ts.tag = "raise" THEN Fail(ts.err, "get_block_timestamp", Ok(d))
    ELSE LET event_name == d.event_name
             args == d.args
             arg_names == d.arg_names
             case_id_value ==
                 IF IndexOf(arg_names, "user") # 0
                 THEN args[IndexOf(arg_names, "user")] ELSE CONTRACT_ADDRESS
             activity_value ==
                 IF IndexOf(arg_names, "step") # 0
                 THEN args[IndexOf(arg_names, "step")] ELSE Str(event_name)
             ts_value ==
                 IF IndexOf(arg_names, "timestamp") # 0
                 THEN TimestampOverride(args[IndexOf(arg_names, "timestamp")],
                                        fromtimestamp(ts.val).val)
                 ELSE fromtimestamp(ts.val)
         IN IF ts_value.tag = "raise" THEN Fail(ts_value.err, "mapper", Ok(d))
            ELSE Done(Record(case_id_value, activity_value, ts_value.val), Ok(d))

\* processmining.py: the body of `for log in logs`
ScriptIteration(log, events, resp) ==
    LET d == IF events # << >> THEN decode_log(log, events) ELSE None
    IN IF d.tag = "raise" THEN Fail(d.err, "decode_log", None)
       ELSE IF d.tag = "none" THEN MapUndecoded(log, get_block_timestamp(resp))
       ELSE MapDecoded(d.val, get_block_timestamp(resp))

\* streamlit_process_mining.py: the body of `for log in logs`
StreamlitIteration(log, events, resp) ==
    LET d == IF events # << >> THEN decode_log_st(log, events) ELSE None
        ts == get_block_timestamp(resp)
    IN IF ts.tag = "raise" THEN Fail(ts.err, "get_block_timestamp", d)
       ELSE IF Len(log.topics) = 0 THEN Fail("IndexError", "mapper", d)
       ELSE IF d.tag = "none"
       THEN Done(Record(log.address, Hex(log.topics[1]), fromtimestamp(ts.val).val), d)
       ELSE IF Len(d.val.args) = 0 THEN Fail("IndexError", "mapper", d)
       ELSE Done(Record(d.val.args[1], Str(d.val.event_name),
                        fromtimestamp(ts.val).val), d)

Iteration(e, log, events, resp) ==
    IF e = "script" THEN ScriptIteration(log, events, resp)
    ELSE StreamlitIteration(log, events, resp)

PrependRecord(table, rec) == << rec >> \o table
\* data.append({...})
AppendRecord(table, rec) == Append(table, rec)

-----------------------------------------------------------------------------
(* The explorer and the node *)

RECURSIVE Ascending(_)
\* the members of a set of positions, in ascending order
Ascending(S) ==
    IF S = {} THEN << >>
    ELSE LET m == CHOOSE x \in S : \A y \in S : x <= y
         IN << m >> \o Ascending(S \ {m})

\* ABI lists an explorer may hold for the contract: items of the interface in
\* declaration order
AbiLists ==
    { [j \in 1..Len(Ascending(S)) |-> Interface[Ascending(S)[j]]] :
        S \in { T \in SUBSET (1..Len(Interface)) : Cardinality(T) <= MaxAbiItems } }

Replies ==
    { [status |-> "1", result |-> [json |-> items]] : items \in AbiLists }
    \cup { [status |-> "0", result |-> [text |-> m]] :
            m \in { "Contract source code not verified", "Max rate limit reached" } }

get_contract_abi_unchecked(rep) == rep.result
\* `if result["status"] == "1": return result["result"] else: return None`
get_contract_abi(rep) ==
    IF rep.status = "1" THEN rep.result ELSE None

json_loads(text) ==
    IF "json" \in DOMAIN text THEN Ok(text.json) ELSE Raise("JSONDecodeError")

\* lines `abi_events = []; if abi_json: ...`
ExtractEvents(abi_json) ==
    IF abi_json = None THEN Ok(<< >>)
    ELSE LET abi == json_loads(abi_json)
         IN IF abi.tag = "raise" THEN abi
            ELSE Ok(SelectSeq(abi.val, LAMBDA item : item.type = "event"))

\* what get_logs may return for [from_block, latest]: logs of the address in
\* block order
LogLists(from_block, latest) ==
    { l \in UNION { [1..n -> ChainLogs] : n \in 0..MaxLogs } :
        /\ \A i \in 1..Len(l) :
              l[i].blockNumber >= from_block /\ l[i].blockNumber <= latest
        /\ \A i \in 1..(Len(l) - 1) : l[i].blockNumber <= l[i + 1].blockNumber }

EngineCalls(e) ==
    IF e = "script"
    THEN << "format_dataframe", "convert_to_event_log",
            "discover_petri_net_alpha", "discover_dfg", "view_dfg" >>
    ELSE << "format_dataframe", "convert_to_event_log", "discover_dfg",
            "save_vis_dfg" >>

\* an exception leaves the script with a traceback; the app shows st.error
Shown(e, err) ==
    IF e = "script" THEN [kind |-> "traceback", text |-> err]
    ELSE [kind |-> "st.error", text |-> err]

NoMessage == [kind |-> "none", text |-> ""]

-----------------------------------------------------------------------------
(* The run *)

LAST_N_BLOCKS == 5

Init ==
    /\ entry \in {"script", "streamlit"}
    /\ num_blocks \in (IF entry = "script" THEN {LAST_N_BLOCKS} ELSE {1})
    /\ pc = "start"
    /\ current_block = 0
    /\ start_block = 0
    /\ reply = None
    /\ abi_events = << >>
    /\ logs = << >>
    /\ data = << >>
    /\ decoded = None
    /\ outcome = ""
    /\ origin = ""
    /\ message = NoMessage
    /\ engine = << >>
    /\ rpc_failed = FALSE

Abort(err, where) ==
    /\ pc' = "aborted"
    /\ outcome' = err
    /\ origin' = where
    /\ message' = Shown(entry, err)

\* current_block = w3.eth.block_number; start_block = max(current - n, 0)
GetBlockNumber ==
    /\ pc = "start"
    /\ \/ /\ \E b \in {3, 8} :
                /\ current_block' = b
                /\ start_block' = (IF b - num_blocks > 0 THEN b - num_blocks ELSE 0)
          /\ pc' = "abi"
          /\ UNCHANGED <<outcome, origin, message, rpc_failed>>
       \/ /\ Abort("RetrievalError", "block_number")
          /\ rpc_failed' = TRUE
          /\ UNCHANGED <<current_block, start_block>>
    /\ UNCHANGED <<entry, num_blocks, reply, abi_events, logs, data, decoded, engine>>

\* abi_json = get_contract_abi(...); abi_events = [events of the ABI]
FetchAbi ==
    /\ pc = "abi"
    /\ \/ \E rep \in Replies :
            LET evs == ExtractEvents(get_contract_abi(rep))
            IN /\ reply' = rep
               /\ IF evs.tag = "raise"
                  THEN /\ Abort(evs.err, "json.loads")
                       /\ UNCHANGED abi_events
                  ELSE /\ abi_events' = evs.val
                       /\ pc' = "logs"
                       /\ UNCHANGED <<outcome, origin, message>>
       \/ /\ Abort("ConnectionError", "get_contract_abi")
          /\ UNCHANGED <<reply, abi_events>>
    /\ UNCHANGED <<entry, num_blocks, current_block, start_block, logs, data,
                   decoded, engine, rpc_failed>>

\* logs = fetch_logs(address, start_block, 'latest')
FetchLogs ==
    /\ pc = "logs"
    /\ \/ /\ \E l \in LogLists(start_block, current_block) : logs' = l
          /\ pc' = "loop"
          /\ UNCHANGED <<outcome, origin, message, rpc_failed>>
       \/ /\ Abort("RetrievalError", "fetch_logs")
          /\ rpc_failed' = TRUE
          /\ UNCHANGED logs
    /\ UNCHANGED <<entry, num_blocks, current_block, start_block, reply,
                   abi_events, data, decoded, engine>>

\* `for log in logs:` has another log to take
LoopHasNext(table, ls) == Len(table) < Len(ls)

\* one iteration of the loop: decode, fetch the block timestamp, append
MapLog ==
    /\ pc = "loop"
    /\ LoopHasNext(data, logs)
    /\ LET log == logs[Len(data) + 1]
       IN \E resp \in BlockResponses(log.blockNumber) :
            LET r == Iteration(entry, log, abi_events, resp)
            IN /\ decoded' = r.decoded
               /\ rpc_failed' = (rpc_failed \/
                                    (~resp.ok /\ (r.tag = "ok" \/ r.origin # "decode_log")))
               /\ IF r.tag = "raise"
                  THEN /\ Abort(r.err, r.origin)
                       /\ UNCHANGED data
                  ELSE /\ data' = AppendRecord(data, r.rec)
                       /\ UNCHANGED <<pc, outcome, origin, message>>
    /\ UNCHANGED <<entry, num_blocks, current_block, start_block, reply,
                   abi_events, logs, engine>>

\* event_log_df = pd.DataFrame(data); the empty check
BuildTable ==
    /\ pc = "loop"
    /\ ~LoopHasNext(data, logs)
    /\ IF data = << >>
       THEN IF entry = "script"
            THEN /\ pc' = "exited"
                 /\ outcome' = "exit(0)"
                 /\ origin' = "empty_check"
                 /\ message' = [kind |-> "print",
                                text |-> "No events found for the given contract and range."]
            ELSE /\ Abort("ValueError", "empty_check")
       ELSE /\ pc' = "mine"
            /\ UNCHANGED <<outcome, origin, message>>
    /\ UNCHANGED <<entry, num_blocks, current_block, start_block, reply,
                   abi_events, logs, data, decoded, engine, rpc_failed>>

\* the straight-line pm4py calls on the table built
Mine ==
    /\ pc = "mine"
    /\ engine' = [c \in 1..Len(EngineCalls(entry)) |->
                     [call |-> EngineCalls(entry)[c], rows |-> Len(data)]]
    /\ pc' = "done"
    /\ outcome' = "ok"
    /\ message' = [kind |-> (IF entry = "script" THEN "print" ELSE "st.image"),
                   text |-> "done"]
    /\ UNCHANGED <<entry, num_blocks, current_block, start_block, reply,
                   abi_events, logs, data, decoded, origin, rpc_failed>>

Next == GetBlockNumber \/ FetchAbi \/ FetchLogs \/ MapLog \/ BuildTable \/ Mine

Spec == Init /\ [][Next]_vars

-----------------------------------------------------------------------------
(* Vocabulary of the properties *)

\* the log the loop handled last (the one that raised, after an abort)
HandledLog == IF pc = "aborted" THEN logs[Len(data) + 1] ELSE logs[Len(data)]

InLoopAbort == pc = "aborted" /\ origin \in {"decode_log", "mapper", "get_block_timestamp"}

\* no definition of the list has the log's first topic as its signature hash
NoMatch(log, events) ==
    \A j \in 1..Len(events) :
        \/ Len(log.topics) = 0
        \/ log.topics[1] # get_event_signature_hash(Signature(events[j]))

BlockTime(log) == [epoch |-> BlockTimestamp(log.blockNumber)]

\* the fallback rule: emitting address, first-topic hex or "unknown", block time
FallbackRecord(log) ==
    Record(log.address,
           IF Len(log.topics) = 0 THEN Str("unknown") ELSE Hex(log.topics[1]),
           BlockTime(log))

InAbi(ev) == \E j \in 1..Len(abi_events) : abi_events[j] = ev

\* the value the contract emitted for the input called name
EmittedValue(ev, name) == Emitted(ev)[IndexOf(NamesOf(ev.inputs), name)]

GoodBlock(log) == [ok |-> TRUE, timestamp |-> BlockTimestamp(log.blockNumber)]

-----------------------------------------------------------------------------
(* Properties *)

\* C1: a run that reaches the mining step has built one record per retrieved
\* log, in retrieval order; each record is the mapping of its own log, and a log
\* no definition decodes contributes its fallback record.
C1_OneRecordPerLog ==
    pc \in {"mine", "done"} =>
        /\ Len(data) = Len(logs)
        /\ \A k \in 1..Len(logs) :
              LET r == Iteration(entry, logs[k], abi_events, GoodBlock(logs[k]))
              IN /\ r.tag = "ok"
                 /\ data[k] = r.rec
                 /\ r.decoded = None => data[k] = FallbackRecord(logs[k])

C1_Witness ==
    /\ pc = "mine"
    /\ Len(logs) = 2
    /\ abi_events # << >>
    /\ data[1] # data[2]
    /\ NoMatch(logs[1], abi_events)
    /\ ~NoMatch(logs[2], abi_events)

\* C2: every log that matches no definition gets the fallback record (activity
\* "unknown" when it has no topics) and mapping it never raises.
C2_FallbackNeverThrows ==
    /\ \A k \in 1..Len(data) :
          NoMatch(logs[k], abi_events) => data[k] = FallbackRecord(logs[k])
    /\ (pc = "aborted" /\ origin \in {"decode_log", "mapper"})
          => ~NoMatch(logs[Len(data) + 1], abi_events)

\* C3: a decoding error on a log with a first topic (too few topics for the
\* matched definition, an undecodable payload) never aborts the run.
C3_DecodingErrorRecovered ==
    ~(pc = "aborted" /\ origin = "decode_log" /\ Len(HandledLog.topics) > 0)

\* C4: for a decoded emission of an event with an input named "user", the
\* record's case id is the value emitted for that input.
C4_UserIsCaseId ==
    \A k \in 1..Len(data) : \A i \in 1..Len(EventPool) :
        LET ev == EventPool[i]
        IN (/\ logs[k] = EmittedLog(ev)
            /\ InAbi(ev)
            /\ IndexOf(NamesOf(ev.inputs), "user") # 0)
           => data[k].case_id = EmittedValue(ev, "user")

\* C5: with zero retrieved logs the run ends in an error outcome with a message
\* and without any call of the discovery engine.
C5_EmptyLogError ==
    origin = "empty_check" =>
        /\ pc = "aborted"
        /\ outcome \notin {"ok", "exit(0)"}
        /\ message.kind # "none"
        /\ engine = << >>

C7_RoundTrip ==
    (entry = "script" /\ decoded.tag = "ok" /\ origin = "") =>
        \A i \in 1..Len(EventPool) :
            LET ev == EventPool[i]
                d == decoded.val
            IN (HandledLog = EmittedLog(ev) /\ d.event_name = ev.name) =>
                  /\ Len(d.args) = Len(ev.inputs)
                  /\ Len(d.arg_names) = Len(ev.inputs)
                  /\ \A j \in 1..Len(d.arg_names) :
                        /\ IndexOf(NamesOf(ev.inputs), d.arg_names[j]) # 0
                        /\ d.args[j] = EmittedValue(ev, d.arg_names[j])

HasAlias(names) ==
    \E j \in 1..Len(names) : names[j] \in {"user", "step", "timestamp"}

\* C8: a decoded event gets the default record (contract address, event name,
\* block time) when its argument names hold no alias, and a field leaves its
\* default only when its alias is among the names; mapping it does not raise.
C8_DefaultRecord ==
    decoded.tag = "ok" =>
        LET names == decoded.val.arg_names
            rec == data[Len(data)]
        IN /\ ~HasAlias(names) => origin # "mapper"
           /\ origin = "" =>
                /\ rec.case_id # CONTRACT_ADDRESS => IndexOf(names, "user") # 0
                /\ rec.activity # Str(decoded.val.event_name)
                      => IndexOf(names, "step") # 0
                /\ rec.timestamp # BlockTime(HandledLog)
                      => IndexOf(names, "timestamp") # 0

\* C9: when the decoded event has an argument named "timestamp" whose value is
\* no integer, the record keeps the block time and no error is raised; the
\* record's time leaves the block time only for an integer value, which it
\* then equals as epoch seconds.
C9_NonIntTimestampIgnored ==
    decoded.tag = "ok" =>
        LET names == decoded.val.arg_names
            args == decoded.val.args
            i == IndexOf(names, "timestamp")
            rec == data[Len(data)]
        IN /\ (i # 0 /\ args[i].k # "int") =>
                /\ origin # "mapper"
                /\ origin = "" => rec.timestamp = BlockTime(HandledLog)
           /\ (origin = "" /\ rec.timestamp # BlockTime(HandledLog)) =>
                /\ i # 0
                /\ args[i].k = "int"
                /\ rec.timestamp = [epoch |-> args[i].n]

C9_Witness ==
    /\ entry = "script"
    /\ pc = "done"
    /\ decoded.tag = "ok"
    /\ IndexOf(decoded.val.arg_names, "timestamp") # 0
    /\ decoded.val.args[IndexOf(decoded.val.arg_names, "timestamp")].k = "str"
    /\ data[Len(data)].timestamp = BlockTime(HandledLog)

C10_State ==
    /\ engine # << >> =>
          /\ pc \in {"mine", "done"}
          /\ reply # None
          /\ ~rpc_failed
          /\ Len(logs) > 0
          /\ Len(data) = Len(logs)
          /\ \A c \in 1..Len(engine) : engine[c].rows = Len(logs)
    /\ rpc_failed => (pc = "aborted" /\ outcome = "RetrievalError")
    /\ pc \in {"aborted", "exited"} => engine = << >>

\* C10: the discovery engine is called only after the ABI fetch, the log fetch
\* and the mapping of every log have completed, on the full table; a failed
\* log or block fetch aborts the run, and an ended run takes no further step
\* (no retry, no discovery call).
C10_NoModelFromFailedRun ==
    /\ []C10_State
    /\ [][~rpc_failed /\ pc \notin {"aborted", "exited", "done"}]_vars

C10_Witness ==
    /\ rpc_failed
    /\ origin = "get_block_timestamp"
    /\ Len(data) = 1
    /\ engine = << >>

====
